---- MODULE Spec2Model ----
(***************************************************************************)
(* Usage governor of app.py: the session's usage_tracking record, the      *)
(* lazy window reset, the admission check, the usage record and the        *)
(* Streamlit script run that calls them once per user interaction.         *)
(***************************************************************************)
EXTENDS Integers, Sequences, FiniteSets, TLC

VARIABLES
    now,      \* the wall clock read by datetime.now()
    usage,    \* st.session_state.usage_tracking
    pc,       \* position of the script run
    question, \* length of the text in the question box (0: no question or no image)
    button,   \* whether this run was started by the "Reset Usage" button
    verdict,  \* (can_proceed, message) of the last check_rate_limits of this run, and its argument
    last,     \* history variable: the governor operation performed last, the state and clock it saw
    admitted, \* history variable: admissions of generate_caption per minute and per day window
    runs,     \* number of user interactions so far; of records taken after the instant the record
              \* was built at, when the governor is called function by function
    session   \* history variable: when the record was built and the records taken since

vars == <<now, usage, pc, question, button, verdict, last, admitted, runs, session>>

---------------------------------------------------------------------------
(* API_LIMITS *)

requests_per_minute == 30

requests_per_day == 1000

tokens_per_minute == 30000

tokens_per_day == 500000

per_request_limit == 10000

\* usage_history keeps the last 50 entries
history_limit == 50

\* base tokens added to the estimate of a question for the image
image_base_tokens == 200

\* 1 token is about 4 characters
chars_per_token == 4

---------------------------------------------------------------------------
(* Bounds of the model *)

\* the clock is read in the minutes 0..MaxMinute of a day
MaxMinute == 1

\* user interactions in one behaviour
MaxRuns == 2

\* lengths of the questions a user types: estimates 200, 10000 and 10001
QuestionLengths == {3, 39203, 39204}

\* the total_tokens figure the provider reports: above every admitted estimate
ProviderTotals == {12000}

\* lengths of the response text when the provider reports no usage
ResponseLengths == {401}

\* the day the session starts in and the day after
Days == {0, 1}

\* seconds of the minute at which the clock is read
Seconds == {0, 59}

\* calls of update_usage_tracking on a record of the governor called
\* function by function, while the clock reads the instant the record was
\* built at: one more than the history keeps
MaxRecords == 51

\* calls of update_usage_tracking in such a behaviour once the clock has
\* moved on from that instant
MaxLater == 2

\* the longest text given to estimate_tokens_from_text on its own
MaxLength == 4

\* estimates given to check_rate_limits on its own: a small request and one
\* above the per-request limit but within the per-minute token cap
Estimates == {150, 15000}

\* tokens given to update_usage_tracking on its own
RecordTokens == {100}

---------------------------------------------------------------------------
(* The clock and the two strftime keys *)

Times == [day : Days, minute : 0..MaxMinute, second : Seconds]

Before(s, t) ==
    \/ s.day < t.day
    \/ s.day = t.day /\ s.minute < t.minute
    \/ s.day = t.day /\ s.minute = t.minute /\ s.second < t.second

\* the clock read a second time, right after it read s: the same instant or
\* the first instant of the next minute or of the next day
RightAfter(s) ==
    {s} \cup { t \in Times : /\ t.second = 0
                             /\ \/ t.day = s.day /\ t.minute = s.minute + 1
                                \/ t.day = s.day + 1 /\ t.minute = 0 }

\* now.strftime('%Y-%m-%d')
DayKey(t) == <<t.day>>

\* a minute key without the date: '%H:%M'
MinuteKeyWithoutDate(t) == <<t.minute>>

\* now.strftime('%Y-%m-%d %H:%M')
MinuteKey(t) == <<t.day, t.minute>>

---------------------------------------------------------------------------
(* The governor *)

\* the dictionary init_session_state and the reset button build; the two
\* keys come from two reads of the clock, t1 and then t2
FreshUsage(t1, t2) ==
    [ daily_tokens      |-> 0,
      daily_requests    |-> 0,
      last_daily_reset  |-> DayKey(t1),
      minute_tokens     |-> 0,
      minute_requests   |-> 0,
      last_minute_reset |-> MinuteKey(t2),
      usage_history     |-> <<>> ]

ResetDaily(u, t) ==
    IF u.last_daily_reset # DayKey(t)
    THEN [u EXCEPT !.daily_tokens = 0,
                   !.daily_requests = 0,
                   !.last_daily_reset = DayKey(t)]
    ELSE u

\* the minute block also clearing the daily counters
ResetMinuteWithDaily(u, t) ==
    IF u.last_minute_reset # MinuteKey(t)
    THEN [u EXCEPT !.minute_tokens = 0,
                   !.minute_requests = 0,
                   !.daily_tokens = 0,
                   !.daily_requests = 0,
                   !.last_minute_reset = MinuteKey(t)]
    ELSE u

\* the minute block comparing the stored minute key with the day key
ResetMinuteAgainstDay(u, t) ==
    IF u.last_minute_reset # DayKey(t)
    THEN [u EXCEPT !.minute_tokens = 0,
                   !.minute_requests = 0,
                   !.last_minute_reset = MinuteKey(t)]
    ELSE u

\* the minute block storing the new key and leaving the counters
ResetMinuteKeyOnly(u, t) ==
    IF u.last_minute_reset # MinuteKey(t)
    THEN [u EXCEPT !.last_minute_reset = MinuteKey(t)]
    ELSE u

ResetMinute(u, t) ==
    IF u.last_minute_reset # MinuteKey(t)
    THEN [u EXCEPT !.minute_tokens = 0,
                   !.minute_requests = 0,
                   !.last_minute_reset = MinuteKey(t)]
    ELSE u

\* the reset without its minute block
ResetDailyOnly(u, t) == ResetDaily(u, t)

reset_usage_counters(u, t) == ResetMinute(ResetDaily(u, t), t)

MsgRequestsPerMinute ==
    "Rate limit exceeded: " \o ToString(requests_per_minute) \o " requests per minute"

MsgRequestsPerDay ==
    "Daily limit exceeded: " \o ToString(requests_per_day) \o " requests per day"

MsgTokensPerMinute ==
    "Token rate limit exceeded: " \o ToString(tokens_per_minute) \o " tokens per minute"

\* the daily message copied from the per-minute one
MsgTokensPerDayCopied ==
    "Token rate limit exceeded: " \o ToString(tokens_per_minute) \o " tokens per minute"

MsgTokensPerDay ==
    "Daily token limit exceeded: " \o ToString(tokens_per_day) \o " tokens per day"

MsgPerRequest(estimated_tokens) ==
    "Request too large: " \o ToString(estimated_tokens) \o " tokens (max "
        \o ToString(per_request_limit) \o ")"

\* the five tests with the per-minute token test moved to the front
RateLimitVerdictTokensFirst(u, estimated_tokens) ==
    IF u.minute_tokens + estimated_tokens > tokens_per_minute
    THEN [ok |-> FALSE, message |-> MsgTokensPerMinute, estimate |-> estimated_tokens]
    ELSE IF u.minute_requests >= requests_per_minute
    THEN [ok |-> FALSE, message |-> MsgRequestsPerMinute, estimate |-> estimated_tokens]
    ELSE IF u.daily_requests >= requests_per_day
    THEN [ok |-> FALSE, message |-> MsgRequestsPerDay, estimate |-> estimated_tokens]
    ELSE IF u.daily_tokens + estimated_tokens > tokens_per_day
    THEN [ok |-> FALSE, message |-> MsgTokensPerDay, estimate |-> estimated_tokens]
    ELSE IF estimated_tokens > per_request_limit
    THEN [ok |-> FALSE, message |-> MsgPerRequest(estimated_tokens),
          estimate |-> estimated_tokens]
    ELSE [ok |-> TRUE, message |-> "OK", estimate |-> estimated_tokens]

\* the five tests with the token tests leaving the estimate out
RateLimitVerdictWithoutEstimate(u, estimated_tokens) ==
    IF u.minute_requests >= requests_per_minute
    THEN [ok |-> FALSE, message |-> MsgRequestsPerMinute, estimate |-> estimated_tokens]
    ELSE IF u.daily_requests >= requests_per_day
    THEN [ok |-> FALSE, message |-> MsgRequestsPerDay, estimate |-> estimated_tokens]
    ELSE IF u.minute_tokens > tokens_per_minute
    THEN [ok |-> FALSE, message |-> MsgTokensPerMinute, estimate |-> estimated_tokens]
    ELSE IF u.daily_tokens > tokens_per_day
    THEN [ok |-> FALSE, message |-> MsgTokensPerDay, estimate |-> estimated_tokens]
    ELSE IF estimated_tokens > per_request_limit
    THEN [ok |-> FALSE, message |-> MsgPerRequest(estimated_tokens),
          estimate |-> estimated_tokens]
    ELSE [ok |-> TRUE, message |-> "OK", estimate |-> estimated_tokens]

\* the tests without the daily token test
RateLimitVerdictWithoutDailyTokens(u, estimated_tokens) ==
    IF u.minute_requests >= requests_per_minute
    THEN [ok |-> FALSE, message |-> MsgRequestsPerMinute, estimate |-> estimated_tokens]
    ELSE IF u.daily_requests >= requests_per_day
    THEN [ok |-> FALSE, message |-> MsgRequestsPerDay, estimate |-> estimated_tokens]
    ELSE IF u.minute_tokens + estimated_tokens > tokens_per_minute
    THEN [ok |-> FALSE, message |-> MsgTokensPerMinute, estimate |-> estimated_tokens]
    ELSE IF estimated_tokens > per_request_limit
    THEN [ok |-> FALSE, message |-> MsgPerRequest(estimated_tokens),
          estimate |-> estimated_tokens]
    ELSE [ok |-> TRUE, message |-> "OK", estimate |-> estimated_tokens]

\* the five tests with the per-minute request test passing at the cap
RateLimitVerdictStrictRequests(u, estimated_tokens) ==
    IF u.minute_requests > requests_per_minute
    THEN [ok |-> FALSE, message |-> MsgRequestsPerMinute, estimate |-> estimated_tokens]
    ELSE IF u.daily_requests >= requests_per_day
    THEN [ok |-> FALSE, message |-> MsgRequestsPerDay, estimate |-> estimated_tokens]
    ELSE IF u.minute_tokens + estimated_tokens > tokens_per_minute
    THEN [ok |-> FALSE, message |-> MsgTokensPerMinute, estimate |-> estimated_tokens]
    ELSE IF u.daily_tokens + estimated_tokens > tokens_per_day
    THEN [ok |-> FALSE, message |-> MsgTokensPerDay, estimate |-> estimated_tokens]
    ELSE IF estimated_tokens > per_request_limit
    THEN [ok |-> FALSE, message |-> MsgPerRequest(estimated_tokens),
          estimate |-> estimated_tokens]
    ELSE [ok |-> TRUE, message |-> "OK", estimate |-> estimated_tokens]

\* the tests without the per-request size test
RateLimitVerdictWithoutSizeTest(u, estimated_tokens) ==
    IF u.minute_requests >= requests_per_minute
    THEN [ok |-> FALSE, message |-> MsgRequestsPerMinute, estimate |-> estimated_tokens]
    ELSE IF u.daily_requests >= requests_per_day
    THEN [ok |-> FALSE, message |-> MsgRequestsPerDay, estimate |-> estimated_tokens]
    ELSE IF u.minute_tokens + estimated_tokens > tokens_per_minute
    THEN [ok |-> FALSE, message |-> MsgTokensPerMinute, estimate |-> estimated_tokens]
    ELSE IF u.daily_tokens + estimated_tokens > tokens_per_day
    THEN [ok |-> FALSE, message |-> MsgTokensPerDay, estimate |-> estimated_tokens]
    ELSE [ok |-> TRUE, message |-> "OK", estimate |-> estimated_tokens]

\* the five tests of check_rate_limits on the counters left by the reset
RateLimitVerdict(u, estimated_tokens) ==
    IF u.minute_requests >= requests_per_minute
    THEN [ok |-> FALSE, message |-> MsgRequestsPerMinute, estimate |-> estimated_tokens]
    ELSE IF u.daily_requests >= requests_per_day
    THEN [ok |-> FALSE, message |-> MsgRequestsPerDay, estimate |-> estimated_tokens]
    ELSE IF u.minute_tokens + estimated_tokens > tokens_per_minute
    THEN [ok |-> FALSE, message |-> MsgTokensPerMinute, estimate |-> estimated_tokens]
    ELSE IF u.daily_tokens + estimated_tokens > tokens_per_day
    THEN [ok |-> FALSE, message |-> MsgTokensPerDay, estimate |-> estimated_tokens]
    ELSE IF estimated_tokens > per_request_limit
    THEN [ok |-> FALSE, message |-> MsgPerRequest(estimated_tokens),
          estimate |-> estimated_tokens]
    ELSE [ok |-> TRUE, message |-> "OK", estimate |-> estimated_tokens]

\* a check that counts the request it admits
CheckReserving(u, t, estimated_tokens) ==
    LET r == reset_usage_counters(u, t)
        v == RateLimitVerdict(r, estimated_tokens)
    IN  [state  |-> IF v.ok
                    THEN [r EXCEPT !.minute_requests = @ + 1, !.daily_requests = @ + 1]
                    ELSE r,
         result |-> v]

\* check_rate_limits: the state it leaves and the pair it returns
check_rate_limits(u, t, estimated_tokens) ==
    LET r == reset_usage_counters(u, t)
    IN  [state |-> r, result |-> RateLimitVerdict(r, estimated_tokens)]

\* the trim keeping the first 50 entries: usage['usage_history'][:50]
KeepFirst(h) ==
    IF Len(h) > history_limit
    THEN SubSeq(h, 1, history_limit)
    ELSE h

\* usage['usage_history'][-50:] when longer than 50
KeepLast(h) ==
    IF Len(h) > history_limit
    THEN SubSeq(h, Len(h) - history_limit + 1, Len(h))
    ELSE h

\* the record taken after a window reset
UpdateAfterReset(u, t, tokens_used) ==
    LET r == reset_usage_counters(u, t)
    IN  [r EXCEPT !.daily_tokens = @ + tokens_used,
                  !.daily_requests = @ + 1,
                  !.minute_tokens = @ + tokens_used,
                  !.minute_requests = @ + 1,
                  !.usage_history =
                      KeepLast(Append(@, [timestamp |-> t, tokens |-> tokens_used]))]

\* the record that stops the daily token counter at its cap
UpdateUpToCap(u, t, tokens_used) ==
    [u EXCEPT !.daily_tokens = IF @ + tokens_used > tokens_per_day
                               THEN tokens_per_day ELSE @ + tokens_used,
              !.daily_requests = @ + 1,
              !.minute_tokens = @ + tokens_used,
              !.minute_requests = @ + 1,
              !.usage_history =
                  KeepLast(Append(@, [timestamp |-> t, tokens |-> tokens_used]))]

update_usage_tracking(u, t, tokens_used) ==
    [u EXCEPT !.daily_tokens = @ + tokens_used,
              !.daily_requests = @ + 1,
              !.minute_tokens = @ + tokens_used,
              !.minute_requests = @ + 1,
              !.usage_history =
                  KeepLast(Append(@, [timestamp |-> t, tokens |-> tokens_used]))]

\* the estimate rounded up
EstimateRoundedUp(length) == (length + chars_per_token - 1) \div chars_per_token

estimate_tokens_from_text(length) == length \div chars_per_token

\* estimate_tokens_from_text(question) + 200
EstimateQuestion(length) == estimate_tokens_from_text(length) + image_base_tokens

---------------------------------------------------------------------------
(* States a session can be in between two script runs *)

Rep(n, e) == [i \in 1..n |-> e]

Min(a, b) == IF a < b THEN a ELSE b

\* The session after `earlier_requests` recorded requests summing to
\* `earlier_tokens` in earlier minutes of the day (the last of them at t0,
\* shown in the history with their mean) and `minute_requests` recorded
\* requests of `minute_each` tokens in the minute of t, its last access
\* being at t.
Session(t0, t, earlier_requests, earlier_tokens, minute_requests, minute_each) ==
    [ daily_tokens      |-> earlier_tokens + minute_requests * minute_each,
      daily_requests    |-> earlier_requests + minute_requests,
      last_daily_reset  |-> DayKey(t),
      minute_tokens     |-> minute_requests * minute_each,
      minute_requests   |-> minute_requests,
      last_minute_reset |-> MinuteKey(t),
      usage_history     |->
          KeepLast(Rep(Min(earlier_requests, history_limit),
                       [timestamp |-> t0,
                        tokens |-> IF earlier_requests = 0 THEN 0
                                   ELSE earlier_tokens \div earlier_requests])
                   \o Rep(minute_requests, [timestamp |-> t, tokens |-> minute_each])) ]

FirstMinute == [day |-> 0, minute |-> 0, second |-> 0]

SecondMinute == [day |-> 0, minute |-> 1, second |-> 0]

\* sessions close to one or several of the caps
BusySessions ==
    { Session(FirstMinute, SecondMinute, 0, 0, 29, 100),
      Session(FirstMinute, SecondMinute, 0, 0, 30, 100),
      Session(FirstMinute, SecondMinute, 0, 0, 2, 14900),
      Session(FirstMinute, SecondMinute, 999, 99900, 0, 0),
      Session(FirstMinute, SecondMinute, 100, 499800, 0, 0),
      Session(FirstMinute, SecondMinute, 970, 470000, 30, 1000) }

NoVerdict == [ok |-> FALSE, message |-> "", estimate |-> -1]

Operation(op, u, t, n) == [op |-> op, pre |-> u, at |-> t, tokens |-> n]

AdmittedSoFar(u) ==
    [ minute_key |-> u.last_minute_reset, minute |-> u.minute_requests,
      day_key    |-> u.last_daily_reset,  day    |-> u.daily_requests ]

\* one more admission, counted in the minute and the day of t
Admit(a, t) ==
    [ minute_key |-> MinuteKey(t),
      minute     |-> IF a.minute_key = MinuteKey(t) THEN a.minute + 1 ELSE 1,
      day_key    |-> DayKey(t),
      day        |-> IF a.day_key = DayKey(t) THEN a.day + 1 ELSE 1 ]

\* a record built at t with n calls of update_usage_tracking since
BuiltAt(t, n) == [built |-> t, records |-> n]

OneMoreRecord(s) == [s EXCEPT !.records = @ + 1]

---------------------------------------------------------------------------
(* The script *)

\* init_session_state on the first run of a session: the two keys are two
\* reads of the clock
InitFresh ==
    /\ \E t2 \in RightAfter(FirstMinute) :
        /\ now = t2
        /\ usage = FreshUsage(FirstMinute, t2)
        /\ session = BuiltAt(t2, 0)

\* a session met between two of its script runs
InitBusy ==
    /\ now = SecondMinute
    /\ usage \in BusySessions
    /\ session = BuiltAt(IF usage.daily_requests = usage.minute_requests
                         THEN SecondMinute ELSE FirstMinute,
                         usage.daily_requests)

Init ==
    /\ InitFresh \/ InitBusy
    /\ pc = "idle"
    /\ question = 0
    /\ button = FALSE
    /\ verdict = NoVerdict
    /\ last = Operation("init", usage, now, 0)
    /\ admitted = AdmittedSoFar(usage)
    /\ runs = 0

\* time passes while the session waits for the user
Wait ==
    /\ pc = "idle"
    /\ \E t \in Times : Before(now, t) /\ now' = t
    /\ UNCHANGED <<usage, pc, question, button, verdict, last, admitted, runs, session>>

\* the external call takes time: it may end in the next minute or day
CallTakesTime ==
    /\ pc = "call"
    /\ \E t \in RightAfter(now) : Before(now, t) /\ now' = t
    /\ UNCHANGED <<usage, pc, question, button, verdict, last, admitted, runs, session>>

\* display_usage_stats
DisplayUsageStats ==
    /\ usage' = reset_usage_counters(usage, now)
    /\ last' = Operation("display", usage, now, 0)

\* a user interaction starts a script run: init_session_state finds the
\* record, display_usage_stats renders the sidebar, the widgets return the
\* question and whether the reset button was pressed
Interact(q, b) ==
    /\ pc = "idle"
    /\ runs < MaxRuns
    /\ DisplayUsageStats
    /\ question' = q
    /\ button' = b
    /\ runs' = runs + 1
    /\ pc' = "question"
    /\ UNCHANGED <<now, verdict, admitted, session>>

\* st.rerun() runs the script again with the widgets as they are
Rerun ==
    /\ pc = "rerun"
    /\ DisplayUsageStats
    /\ pc' = "question"
    /\ UNCHANGED <<now, question, button, verdict, admitted, runs, session>>

\* if user_question: estimate, check_rate_limits
QuestionCheck ==
    /\ pc = "question"
    /\ IF question = 0
       THEN /\ pc' = "button"
            /\ UNCHANGED <<usage, verdict, last>>
       ELSE LET c == check_rate_limits(usage, now, EstimateQuestion(question))
            IN  /\ usage' = c.state
                /\ verdict' = c.result
                /\ last' = Operation("check", usage, now, EstimateQuestion(question))
                /\ pc' = IF c.result.ok THEN "caption" ELSE "blocked"
    /\ UNCHANGED <<now, question, button, admitted, runs, session>>

\* where a request goes after the check of generate_caption
AfterCaptionCheck(ok) == IF ok THEN "client" ELSE "blocked"

\* generate_caption: estimate, check_rate_limits, return when blocked
CaptionCheck ==
    /\ pc = "caption"
    /\ LET c == check_rate_limits(usage, now, EstimateQuestion(question))
       IN  /\ usage' = c.state
           /\ verdict' = c.result
           /\ last' = Operation("check", usage, now, EstimateQuestion(question))
           /\ pc' = AfterCaptionCheck(c.result.ok)
           /\ admitted' = IF c.result.ok THEN Admit(admitted, now) ELSE admitted
    /\ UNCHANGED <<now, question, button, runs, session>>

\* a rejected attempt counted as a request
OnBlockedCounted(u) ==
    [u EXCEPT !.minute_requests = @ + 1, !.daily_requests = @ + 1]

\* what the two rejection branches do to the record: st.error and st.info,
\* or the return of the blocked text
OnBlocked(u) == u

\* the rejection is shown; nothing else is done for the question
Blocked ==
    /\ pc = "blocked"
    /\ usage' = OnBlocked(usage)
    /\ pc' = "button"
    /\ UNCHANGED <<now, question, button, verdict, last, admitted, runs, session>>

\* get_groq_client: None when the API key is not configured
GetClient ==
    /\ pc = "client"
    /\ \E available \in BOOLEAN : pc' = IF available THEN "call" ELSE "button"
    /\ UNCHANGED <<now, usage, question, button, verdict, last, admitted, runs, session>>

\* the try block raises before usage is recorded
CallRaises ==
    /\ pc = "call"
    /\ pc' = "button"
    /\ UNCHANGED <<now, usage, question, button, verdict, last, admitted, runs, session>>

\* the response carries usage: update_usage_tracking(total_tokens)
CallReportsUsage(total_tokens) ==
    /\ pc = "call"
    /\ usage' = update_usage_tracking(usage, now, total_tokens)
    /\ last' = Operation("record", usage, now, total_tokens)
    /\ session' = OneMoreRecord(session)
    /\ pc' = "button"
    /\ UNCHANGED <<now, question, button, verdict, admitted, runs>>

\* the response carries no usage: the estimate of the question plus the
\* estimate of the response text is recorded
CallWithoutUsage(response_length) ==
    /\ pc = "call"
    /\ LET total_estimated ==
               EstimateQuestion(question) + estimate_tokens_from_text(response_length)
       IN  /\ usage' = update_usage_tracking(usage, now, total_estimated)
           /\ last' = Operation("record", usage, now, total_estimated)
    /\ session' = OneMoreRecord(session)
    /\ pc' = "button"
    /\ UNCHANGED <<now, question, button, verdict, admitted, runs>>

\* the end of the script: the reset button replaces the record and reruns
ResetButton ==
    /\ pc = "button"
    /\ IF button
       THEN \E t2 \in RightAfter(now) :
               /\ now' = t2
               /\ usage' = FreshUsage(now, t2)
               /\ last' = Operation("reset", usage, now, 0)
               /\ admitted' = AdmittedSoFar(FreshUsage(now, t2))
               /\ session' = BuiltAt(t2, 0)
               /\ pc' = "rerun"
               /\ UNCHANGED question
       ELSE /\ pc' = "idle"
            /\ question' = 0
            /\ last' = Operation("none", usage, now, 0)
            /\ UNCHANGED <<now, usage, admitted, session>>
    /\ button' = FALSE
    /\ verdict' = NoVerdict
    /\ UNCHANGED runs

Next ==
    \/ Wait
    \/ CallTakesTime
    \/ \E q \in QuestionLengths \cup {0}, b \in BOOLEAN : Interact(q, b)
    \/ Rerun
    \/ QuestionCheck
    \/ CaptionCheck
    \/ Blocked
    \/ GetClient
    \/ CallRaises
    \/ \E total_tokens \in ProviderTotals : CallReportsUsage(total_tokens)
    \/ \E response_length \in ResponseLengths : CallWithoutUsage(response_length)
    \/ ResetButton

Spec == Init /\ [][Next]_vars

---------------------------------------------------------------------------
(* The functions of the governor called one at a time, in any order *)

GovernorInit ==
    /\ InitFresh \/ InitBusy
    /\ pc = "governor"
    /\ question = 0
    /\ button = FALSE
    /\ verdict = NoVerdict
    /\ last = Operation("init", usage, now, 0)
    /\ admitted = AdmittedSoFar(usage)
    /\ runs = 0

\* between two calls the clock leaves the instant the record was built at,
\* for the next minute or the next day
ClockAdvances ==
    /\ pc = "governor"
    /\ now = session.built
    /\ \E t \in RightAfter(now) : Before(now, t) /\ now' = t
    /\ UNCHANGED <<usage, pc, question, button, verdict, last, admitted, runs, session>>

\* display_usage_stats()
CallDisplayUsageStats ==
    /\ pc = "governor"
    /\ DisplayUsageStats
    /\ question' = 0
    /\ verdict' = NoVerdict
    /\ UNCHANGED <<now, pc, button, admitted, runs, session>>

\* check_rate_limits(estimated_tokens)
CallCheckRateLimits(estimated_tokens) ==
    /\ pc = "governor"
    /\ LET c == check_rate_limits(usage, now, estimated_tokens)
       IN  /\ usage' = c.state
           /\ verdict' = c.result
           /\ last' = Operation("check", usage, now, estimated_tokens)
    /\ question' = 0
    /\ UNCHANGED <<now, pc, button, admitted, runs, session>>

\* update_usage_tracking(tokens_used)
CallUpdateUsageTracking(tokens_used) ==
    /\ pc = "governor"
    /\ IF now = session.built
       THEN session.records < MaxRecords /\ runs' = runs
       ELSE runs < MaxLater /\ runs' = runs + 1
    /\ usage' = update_usage_tracking(usage, now, tokens_used)
    /\ last' = Operation("record", usage, now, tokens_used)
    /\ session' = OneMoreRecord(session)
    /\ question' = 0
    /\ verdict' = NoVerdict
    /\ UNCHANGED <<now, pc, button, admitted>>

\* estimate_tokens_from_text(text) for a text of `length` characters
CallEstimateTokensFromText(length) ==
    /\ pc = "governor"
    /\ question' = length
    /\ last' = Operation("estimate", usage, now, estimate_tokens_from_text(length))
    /\ verdict' = NoVerdict
    /\ UNCHANGED <<now, usage, pc, button, admitted, runs, session>>

GovernorNext ==
    \/ ClockAdvances
    \/ CallDisplayUsageStats
    \/ \E estimated_tokens \in Estimates : CallCheckRateLimits(estimated_tokens)
    \/ \E tokens_used \in RecordTokens : CallUpdateUsageTracking(tokens_used)
    \/ \E length \in 0..MaxLength : CallEstimateTokensFromText(length)

GovernorSpec == GovernorInit /\ [][GovernorNext]_vars

---------------------------------------------------------------------------
(* Properties *)

\* the operations that start with reset_usage_counters
ResetOps == {"display", "check"}

\* the counters and keys a window reset at `t` leaves from `u`, spelled out
AfterReset(u, t) ==
    LET new_day    == u.last_daily_reset # <<t.day>>
        new_minute == u.last_minute_reset # <<t.day, t.minute>>
    IN  [ daily_tokens      |-> IF new_day THEN 0 ELSE u.daily_tokens,
          daily_requests    |-> IF new_day THEN 0 ELSE u.daily_requests,
          last_daily_reset  |-> <<t.day>>,
          minute_tokens     |-> IF new_minute THEN 0 ELSE u.minute_tokens,
          minute_requests   |-> IF new_minute THEN 0 ELSE u.minute_requests,
          last_minute_reset |-> <<t.day, t.minute>>,
          usage_history     |-> u.usage_history ]

\* C1: after the window reset, check_rate_limits admits exactly when none of
\* the five conditions holds, and a rejection reports the first condition
\* that holds in the order per-minute requests, daily requests, per-minute
\* tokens, daily tokens, per-request size.
C1_FirstViolationDecides ==
    last.op = "check" =>
        LET e  == verdict.estimate
            c1 == usage.minute_requests >= 30
            c2 == usage.daily_requests >= 1000
            c3 == usage.minute_tokens + e > 30000
            c4 == usage.daily_tokens + e > 500000
            c5 == e > 10000
        IN  /\ e >= 0
            /\ e = last.tokens
            /\ verdict.ok <=> ~(c1 \/ c2 \/ c3 \/ c4 \/ c5)
            /\ c1 => verdict.message = MsgRequestsPerMinute
            /\ (~c1 /\ c2) => verdict.message = MsgRequestsPerDay
            /\ (~c1 /\ ~c2 /\ c3) => verdict.message = MsgTokensPerMinute
            /\ (~c1 /\ ~c2 /\ ~c3 /\ c4) => verdict.message = MsgTokensPerDay
            /\ (~c1 /\ ~c2 /\ ~c3 /\ ~c4 /\ c5) => verdict.message = MsgPerRequest(e)

\* a check that met both the per-minute request cap and the per-minute token
\* cap, and reported the request cap
C1_Witness ==
    /\ last.op = "check"
    /\ usage.minute_requests >= 30
    /\ usage.minute_tokens + verdict.estimate > 30000
    /\ ~verdict.ok
    /\ verdict.message = MsgRequestsPerMinute

\* C2 (as claimed): the requests admitted by generate_caption's check within
\* one minute window never exceed requests_per_minute, and within one day
\* never exceed requests_per_day.
C2_AdmittedWithinCaps ==
    /\ admitted.minute <= requests_per_minute
    /\ admitted.day <= requests_per_day

\* C3 (as claimed): the token counters never exceed tokens_per_minute and
\* tokens_per_day.
C3_TokensWithinCaps ==
    /\ usage.minute_tokens <= tokens_per_minute
    /\ usage.daily_tokens <= tokens_per_day

\* C3 (amended): from the admission by generate_caption's check until the
\* usage is recorded, the counters plus the admitted estimate are within the
\* per-minute and the daily token caps.
C3_AdmittedEstimateWithinCaps ==
    pc \in {"client", "call"} =>
        /\ usage.minute_tokens + verdict.estimate <= 30000
        /\ usage.daily_tokens + verdict.estimate <= 500000

\* an admitted request whose estimate fills the minute window exactly
C3_Witness ==
    /\ pc = "call"
    /\ usage.minute_tokens > 0
    /\ usage.minute_tokens + verdict.estimate = 30000

\* C4 (as claimed): update_usage_tracking starts with the window reset, so
\* after it the keys are those of the time of the record and the request is
\* counted in the window of that time.
C4_RecordResetsFirst ==
    last.op = "record" =>
        /\ usage.last_minute_reset = <<last.at.day, last.at.minute>>
        /\ usage.last_daily_reset = <<last.at.day>>
        /\ usage.minute_requests = AfterReset(last.pre, last.at).minute_requests + 1
        /\ usage.minute_tokens = AfterReset(last.pre, last.at).minute_tokens + last.tokens

\* C4 (amended): check_rate_limits and display_usage_stats start with the
\* window reset and leave the keys of their time; update_usage_tracking does
\* not: it leaves both keys as stored and adds the request and its tokens to
\* the stored counters, also when the clock has crossed a boundary.
C4_ResetOnCheckAndDisplayOnly ==
    /\ last.op \in ResetOps =>
        /\ usage.last_minute_reset = <<last.at.day, last.at.minute>>
        /\ usage.last_daily_reset = <<last.at.day>>
    /\ last.op = "record" =>
        /\ usage.last_minute_reset = last.pre.last_minute_reset
        /\ usage.last_daily_reset = last.pre.last_daily_reset
        /\ usage.minute_requests = last.pre.minute_requests + 1
        /\ usage.minute_tokens = last.pre.minute_tokens + last.tokens
        /\ usage.daily_requests = last.pre.daily_requests + 1
        /\ usage.daily_tokens = last.pre.daily_tokens + last.tokens

\* a record taken after the clock crossed a minute boundary
C4_Witness ==
    /\ last.op = "record"
    /\ last.pre.last_minute_reset # <<last.at.day, last.at.minute>>
    /\ usage.minute_requests > 1

\* C5 (as claimed): a request whose external call was attempted is recorded
\* when the call ends: both request counters are one higher and the history
\* has its entry, also when the call raised.
C5_AttemptedIsRecorded ==
    [][(pc = "call" /\ pc' # "call") =>
          /\ usage'.minute_requests = usage.minute_requests + 1
          /\ usage'.daily_requests = usage.daily_requests + 1
          /\ usage'.usage_history # usage.usage_history]_vars

\* C6: after a rejection the external call is not attempted and no usage is
\* recorded: the record is the one the check left.
C6_RejectionIsTerminal ==
    /\ pc \in {"client", "call"} => verdict.ok
    /\ last.op = "record" => verdict.ok
    /\ (verdict # NoVerdict /\ ~verdict.ok) =>
        /\ pc \in {"blocked", "button"}
        /\ last.op = "check"
        /\ usage = AfterReset(last.pre, last.at)

\* a rejected question that has been handled
C6_Witness ==
    /\ pc = "button"
    /\ verdict # NoVerdict
    /\ ~verdict.ok
    /\ usage.minute_requests > 0

\* the five reasons as the specification words them
DocumentedReasons ==
    { "per-minute request limit exceeded",
      "daily request limit exceeded",
      "per-minute token limit exceeded",
      "daily token limit exceeded",
      "request exceeds per-request token limit" }

\* C7 (as claimed): a rejection carries one of the five documented strings
\* and an admission carries no reason.
C7_DocumentedReasons ==
    last.op = "check" =>
        IF verdict.ok
        THEN verdict.message = ""
        ELSE verdict.message \in DocumentedReasons

\* C7 (amended): a rejection carries one of the five messages of the code,
\* which are distinct, and an admission carries the message "OK".
C7_ReasonsOfTheCode ==
    last.op = "check" =>
        LET reasons ==
                { "Rate limit exceeded: 30 requests per minute",
                  "Daily limit exceeded: 1000 requests per day",
                  "Token rate limit exceeded: 30000 tokens per minute",
                  "Daily token limit exceeded: 500000 tokens per day",
                  "Request too large: " \o ToString(verdict.estimate)
                      \o " tokens (max 10000)" }
        IN  /\ verdict.ok <=> verdict.message = "OK"
            /\ ~verdict.ok => verdict.message \in reasons
            /\ { MsgRequestsPerMinute, MsgRequestsPerDay, MsgTokensPerMinute,
                 MsgTokensPerDay, MsgPerRequest(verdict.estimate) } = reasons

\* a rejection for the size of the request alone
C7_Witness ==
    /\ last.op = "check"
    /\ verdict.message = "Request too large: 10001 tokens (max 10000)"

\* C8 (as claimed): a reset that observes a new calendar day zeroes the
\* daily counters, updates the daily key and leaves the minute counters.
C8_DayRolloverLeavesMinute ==
    (last.op \in ResetOps /\ last.pre.last_daily_reset # <<last.at.day>>) =>
        /\ usage.daily_tokens = 0
        /\ usage.daily_requests = 0
        /\ usage.last_daily_reset = <<last.at.day>>
        /\ usage.minute_tokens = last.pre.minute_tokens
        /\ usage.minute_requests = last.pre.minute_requests

\* C8 (amended): a reset that observes a new calendar day zeroes the daily
\* counters and updates the daily key; the minute key carries the date, so
\* the same reset zeroes the minute counters too, unless the stored minute
\* key is already the minute of now.
C8_DayRolloverResetsMinuteToo ==
    (last.op \in ResetOps /\ last.pre.last_daily_reset # <<last.at.day>>) =>
        /\ usage.daily_tokens = 0
        /\ usage.daily_requests = 0
        /\ usage.last_daily_reset = <<last.at.day>>
        /\ usage.last_minute_reset = <<last.at.day, last.at.minute>>
        /\ IF last.pre.last_minute_reset = <<last.at.day, last.at.minute>>
           THEN /\ usage.minute_tokens = last.pre.minute_tokens
                /\ usage.minute_requests = last.pre.minute_requests
           ELSE /\ usage.minute_tokens = 0
                /\ usage.minute_requests = 0
        /\ usage.usage_history = last.pre.usage_history

\* a day rollover that cleared a minute window in use
C8_Witness ==
    /\ last.op \in ResetOps
    /\ last.pre.last_daily_reset # <<last.at.day>>
    /\ last.pre.minute_requests > 0
    /\ last.pre.minute_tokens > 0
    /\ usage.minute_requests = 0

\* C9: a reset that observes a new minute of the stored day sets the minute
\* counters to 0 and the minute key to the minute of now, and leaves the
\* daily counters, the daily key and the history.
C9_MinuteRolloverLeavesDaily ==
    (/\ last.op \in ResetOps
     /\ last.pre.last_daily_reset = <<last.at.day>>
     /\ last.pre.last_minute_reset # <<last.at.day, last.at.minute>>) =>
        usage = [last.pre EXCEPT !.minute_tokens = 0,
                                 !.minute_requests = 0,
                                 !.last_minute_reset = <<last.at.day, last.at.minute>>]

\* a minute rollover of a session with usage in the minute and in the day
C9_Witness ==
    /\ last.op \in ResetOps
    /\ last.pre.last_daily_reset = <<last.at.day>>
    /\ last.pre.last_minute_reset # <<last.at.day, last.at.minute>>
    /\ last.pre.minute_requests > 0
    /\ usage.minute_requests = 0
    /\ usage.daily_requests > 0
    /\ usage.usage_history # <<>>

\* C10: a reset whose now has the stored day and minute leaves the whole
\* record, and the reset run again with the same now changes nothing.
C10_ResetIdempotent ==
    last.op \in ResetOps =>
        /\ (/\ last.pre.last_daily_reset = <<last.at.day>>
            /\ last.pre.last_minute_reset = <<last.at.day, last.at.minute>>)
               => usage = last.pre
        /\ reset_usage_counters(usage, last.at) = usage

\* a reset within the window of a session with usage, at another second
C10_Witness ==
    /\ last.op = "display"
    /\ last.pre.last_daily_reset = <<last.at.day>>
    /\ last.pre.last_minute_reset = <<last.at.day, last.at.minute>>
    /\ last.at.second # 0
    /\ last.pre.minute_requests > 0
    /\ usage.minute_requests > 0

\* C11: usage_history never holds more than 50 entries and holds min(50, n)
\* of them after n records; a record appends its entry and, past 50, drops
\* the oldest, the others keeping their order; a window reset leaves the
\* history as it is.
C11_HistoryKeepsLastFifty ==
    /\ Len(usage.usage_history) <= 50
    /\ Len(usage.usage_history) = IF session.records < 50 THEN session.records ELSE 50
    /\ last.op = "record" =>
        LET h == Append(last.pre.usage_history,
                        [timestamp |-> last.at, tokens |-> last.tokens])
        IN  usage.usage_history =
                IF Len(h) = 51 THEN [i \in 1..50 |-> h[i + 1]] ELSE h
    /\ last.op \in ResetOps => usage.usage_history = last.pre.usage_history

\* a record onto a full history of unlike entries: the oldest is gone, the
\* newest is last
C11_Witness ==
    /\ last.op = "record"
    /\ session.records > 50
    /\ Len(last.pre.usage_history) = 50
    /\ last.pre.usage_history[1] # last.pre.usage_history[2]
    /\ usage.usage_history[1] = last.pre.usage_history[2]
    /\ usage.usage_history[49] = last.pre.usage_history[50]
    /\ usage.usage_history[50] = [timestamp |-> last.at, tokens |-> last.tokens]

\* C12: update_usage_tracking adds its tokens to both token counters and 1
\* to both request counters, whatever the counters are, and changes nothing
\* else but the history; no counter decreases.
C12_RecordAddsExactly ==
    last.op = "record" =>
        /\ last.tokens >= 0
        /\ usage = [last.pre EXCEPT !.daily_tokens = @ + last.tokens,
                                    !.daily_requests = @ + 1,
                                    !.minute_tokens = @ + last.tokens,
                                    !.minute_requests = @ + 1,
                                    !.usage_history = usage.usage_history]
        /\ usage.daily_tokens >= last.pre.daily_tokens
        /\ usage.minute_tokens >= last.pre.minute_tokens
        /\ usage.daily_requests > last.pre.daily_requests
        /\ usage.minute_requests > last.pre.minute_requests

\* a record taken by a session already at the per-minute request cap, the
\* daily request cap and the daily token cap
C12_Witness ==
    /\ last.op = "record"
    /\ last.pre.minute_requests >= 30
    /\ last.pre.daily_requests >= 1000
    /\ last.pre.daily_tokens >= 500000
    /\ usage.daily_tokens > 500000
    /\ usage.minute_requests > 30

\* C13 (as claimed): a check whose estimate added to the tokens recorded in
\* the day exceeds tokens_per_day is rejected with the daily token reason.
C13_OverDailyTokensReportsDailyTokens ==
    (last.op = "check" /\ usage.daily_tokens + last.tokens > tokens_per_day) =>
        /\ ~verdict.ok
        /\ verdict.message = MsgTokensPerDay

\* C13 (amended): such a check is rejected; it reports the daily token
\* reason exactly when none of the three conditions tested before it holds
\* (per-minute requests, daily requests, per-minute tokens).
C13_OverDailyTokensRejected ==
    (last.op = "check" /\ usage.daily_tokens + last.tokens > 500000) =>
        /\ ~verdict.ok
        /\ verdict.message = "Daily token limit exceeded: 500000 tokens per day"
               <=> /\ usage.minute_requests < 30
                   /\ usage.daily_requests < 1000
                   /\ usage.minute_tokens + last.tokens <= 30000

\* the documented case: 499900 tokens recorded in the day, an estimate of 150
C13_Witness ==
    /\ last.op = "check"
    /\ session.records > 0
    /\ usage.daily_tokens = 499900
    /\ last.tokens = 150
    /\ ~verdict.ok
    /\ verdict.message = "Daily token limit exceeded: 500000 tokens per day"

C15_OversizeNeverAdmitted ==
    last.op = "check" =>
        /\ last.tokens > 10000 => ~verdict.ok
        /\ (/\ usage.minute_requests = 0
            /\ usage.daily_requests = 0
            /\ usage.minute_tokens = 0
            /\ usage.daily_tokens = 0
            /\ last.tokens > 10000
            /\ last.tokens <= 30000) =>
               verdict.message =
                   "Request too large: " \o ToString(last.tokens) \o " tokens (max 10000)"

\* the documented case: a fresh record and an estimate of 15000
C15_Witness ==
    /\ last.op = "check"
    /\ session.records = 0
    /\ usage.usage_history = <<>>
    /\ usage.daily_requests = 0
    /\ last.tokens = 15000
    /\ ~verdict.ok
    /\ verdict.message = "Request too large: 15000 tokens (max 10000)"

\* C16: estimate_tokens_from_text returns the length divided by 4 rounded
\* down, 0 for a text of fewer than 4 characters, and leaves the record.
C16_EstimateIsQuarterLength ==
    last.op = "estimate" =>
        /\ 4 * last.tokens <= question
        /\ question < 4 * last.tokens + 4
        /\ question < 4 => last.tokens = 0
        /\ usage = last.pre

\* the estimate of a text of 3 characters, taken on a record in use
C16_Witness ==
    /\ last.op = "estimate"
    /\ question = 3
    /\ last.tokens = 0
    /\ usage.minute_requests > 0

\* C17: the first check after the clock left the stored minute, with an
\* estimate within per_request_limit, is admitted when the daily counters
\* have room for it, whatever the minute counters held, the usage recorded
\* after the boundary included; it leaves the minute counters at 0.
C17_NextMinuteAdmits ==
    (/\ last.op = "check"
     /\ last.pre.last_minute_reset # <<last.at.day, last.at.minute>>
     /\ last.tokens <= 10000
     /\ usage.daily_requests < 1000
     /\ usage.daily_tokens + last.tokens <= 500000) =>
        /\ verdict.ok
        /\ usage.minute_requests = 0
        /\ usage.minute_tokens = 0

\* 30 records in one minute, one more after the boundary, then the check in
\* the next minute of the same day
C17_Witness ==
    /\ last.op = "check"
    /\ last.pre.last_minute_reset # <<last.at.day, last.at.minute>>
    /\ last.pre.last_daily_reset = <<last.at.day>>
    /\ last.pre.minute_requests > 30
    /\ usage.daily_requests > 30
    /\ verdict.ok

\* C18: check_rate_limits leaves the record the window reset leaves; its
\* result is decided by the counters it leaves and the estimate, so the same
\* check again in that minute returns the same result and leaves the same
\* record; an admission that no record follows leaves the counters as the
\* check left them.
C18_CheckOnlyResets ==
    /\ last.op = "check" =>
        /\ usage = AfterReset(last.pre, last.at)
        /\ \A t \in Times :
               <<t.day, t.minute>> = <<last.at.day, last.at.minute>> =>
                   check_rate_limits(usage, t, last.tokens) =
                       [state |-> usage, result |-> verdict]
    /\ (pc = "client" /\ last.op = "check") => usage = last.pre

\* an admitted question whose call raised: both checks ran, nothing was
\* counted
C18_Witness ==
    /\ pc = "button"
    /\ last.op = "check"
    /\ verdict.ok
    /\ usage = last.pre
    /\ usage.minute_requests > 0

\* C19 (as claimed): the reset button leaves the four counters at 0, the
\* history empty and both keys those of the day and minute of now.
C19_ResetYieldsFreshOfNow ==
    last.op = "reset" =>
        /\ usage.daily_tokens = 0
        /\ usage.daily_requests = 0
        /\ usage.minute_tokens = 0
        /\ usage.minute_requests = 0
        /\ usage.usage_history = <<>>
        /\ usage.last_minute_reset = <<now.day, now.minute>>
        /\ usage.last_daily_reset = <<now.day>>

====
